---- MODULE Spec2Model ----
(***************************************************************************)
(* The edit session of the image editor (src/App.tsx): the React state of  *)
(* the App component, its event handlers, the FileReader reads and the     *)
(* calls to editImageWithGemini that are in flight.                        *)
(*                                                                         *)
(* Spec      the component as rendered: a handler runs only when the       *)
(*           control that triggers it is mounted and enabled.              *)
(* CallSpec  the same, but handleGenerate is run in any state.             *)
(* ResetSpec the same as Spec, but handleReset is run in any state.        *)
(***************************************************************************)
EXTENDS Integers, Sequences, FiniteSets, TLC

VARIABLES originalImage, prompt, status, resultImage, errorMsg,
          reads, inflight, blobUrls, lastOp

vars == <<originalImage, prompt, status, resultImage, errorMsg,
          reads, inflight, blobUrls, lastOp>>

\* The five useState cells of App: the session.
session == <<originalImage, prompt, status, resultImage, errorMsg>>

----------------------------------------------------------------------------
\* Bounds of the model.
MaxInflight == 2
MaxPendingReads == 2
MaxBlobUrls == 2

----------------------------------------------------------------------------
\* JavaScript values.
Null == "<null>"
Undefined == "<undefined>"

\* null in a useState<ImageData | null> cell.
NullImage == [null |-> TRUE]

\* JavaScript truthiness of a string | null | undefined value.
Truthy(v) == v \notin {Null, Undefined, ""}

\* a ?? b in place of a || b: an empty string is kept.
OrElse_Nullish(a, b) == IF a \notin {Null, Undefined} THEN a ELSE b

\* a || b
OrElse(a, b) == IF Truthy(a) THEN a ELSE b

\* enum ProcessingState
IDLE == "IDLE"
LOADING == "LOADING"
SUCCESS == "SUCCESS"
ERROR == "ERROR"
ProcessingState == {IDLE, LOADING, SUCCESS, ERROR}

\* The three literal messages of App.tsx.
InvalidFileMsg == "Please select a valid image file."
NoImageMsg == "The model responded, but did not generate an image."
UnexpectedMsg == "An unexpected error occurred."

----------------------------------------------------------------------------
\* Strings the code inspects are sequences of characters.
ImagePrefix == <<"i", "m", "a", "g", "e", "/">>

\* String.prototype.startsWith
StartsWith(s, p) == Len(s) >= Len(p) /\ SubSeq(s, 1, Len(p)) = p

IsWhiteSpace(c) == c \in {" ", "\t", "\n"}

RECURSIVE TrimStart(_)
TrimStart(s) == IF s # <<>> /\ IsWhiteSpace(Head(s)) THEN TrimStart(Tail(s)) ELSE s

RECURSIVE TrimEnd(_)
TrimEnd(s) ==
  IF s # <<>> /\ IsWhiteSpace(s[Len(s)]) THEN TrimEnd(SubSeq(s, 1, Len(s) - 1)) ELSE s

\* String.prototype.trim
Trim(s) == TrimEnd(TrimStart(s))

\* !prompt.trim()
Blank(s) == Trim(s) = <<>>

----------------------------------------------------------------------------
\* Inputs.

\* The files the user can pick: two images and one file that is not (its
\* declared type holds "image/", but does not start with it).
Files ==
  { [type |-> ImagePrefix \o <<"p", "n", "g">>, bytes |-> "A"],
    [type |-> ImagePrefix \o <<"j", "p", "g">>, bytes |-> "B"],
    [type |-> <<"x">> \o ImagePrefix, bytes |-> "T"] }

\* event.target.files: empty, or the picked file.
FileLists == {<<>>} \cup {<<f>> : f \in Files}

\* What the textarea can hold: nothing, white space, text, text in white space.
TypedPrompts == {<<>>, <<" ", "\n">>, <<"a">>, <<" ", "a", " ">>}

\* The suggestions: non-blank literals.
PROMPT_CATEGORIES == {<<"a", " ", "b">>}

\* What editImageWithGemini can settle to: a GeneratedResult, whose two
\* fields are optional strings, or a thrown error with or without message.
FaultMessages == {"timeout"}
Result(i, t) == [kind |-> "result", imageUrl |-> i, text |-> t]
Results ==
  { Result("data:image/png;base64,R1", Undefined),
    Result("data:image/png;base64,R2", "I cannot do that"),
    Result("", "I cannot do that"),
    Result(Undefined, "I cannot do that"),
    Result(Undefined, ""),
    Result(Undefined, Undefined) }
Faults ==
  { [kind |-> "throw", message |-> m] :
      m \in FaultMessages \cup {Undefined, ""} }
Responses == Results \cup Faults

----------------------------------------------------------------------------
\* FileReader.readAsDataURL: a data URL of the file's type and bytes.
DataURL(file) == <<"data:", file.type, ";base64,", file.bytes>>

\* URL.createObjectURL: a handle the browser has not issued yet, which
\* resolves to the file's bytes.
createObjectURL(file) ==
  [id |-> CHOOSE u \in 1..(MaxBlobUrls + 1) : u \notin blobUrls, bytes |-> file.bytes]

\* The last event: its name and, with it, the file list of a file selection,
\* the file of a completed read and its place among the pending reads (they
\* are in the order of their selection), whether handleGenerate went past its
\* guard, what a call settled to, whether a reset came between the start and
\* the end of a read or a call, and whether a reset follows a reset at once.
Op(name) == [op |-> name]

RemoveAt(s, i) == SubSeq(s, 1, i - 1) \o SubSeq(s, i + 1, Len(s))

Init ==
  /\ originalImage = NullImage
  /\ prompt = <<>>
  /\ status = IDLE
  /\ resultImage = Null
  /\ errorMsg = Null
  /\ reads = <<>>
  /\ inflight = <<>>
  /\ blobUrls = {}
  /\ lastOp = Op("init")

----------------------------------------------------------------------------
\* Handlers.

\* handleFileSelect up to reader.readAsDataURL(file).
handleFileSelect(files) ==
  /\ lastOp' = [op |-> "fileSelect", files |-> files]
  /\ IF files = <<>>
       THEN UNCHANGED <<session, reads, inflight, blobUrls>>
       ELSE IF ~StartsWith(files[1].type, ImagePrefix)
         THEN /\ errorMsg' = InvalidFileMsg
              /\ UNCHANGED <<originalImage, prompt, status, resultImage,
                             reads, inflight, blobUrls>>
         ELSE /\ Len(reads) < MaxPendingReads
              /\ reads' = Append(reads, [file |-> files[1], stale |-> FALSE])
              /\ UNCHANGED <<session, inflight, blobUrls>>

\* reader.onload without its setStatus(IDLE).
readerOnload_KeepsStatus(i) ==
  /\ i \in DOMAIN reads
  /\ Cardinality(blobUrls) < MaxBlobUrls
  /\ LET file == reads[i].file
         url == createObjectURL(file)
     IN /\ originalImage' = [base64 |-> DataURL(file), mimeType |-> file.type, url |-> url]
        /\ blobUrls' = blobUrls \cup {url.id}
  /\ resultImage' = Null
  /\ errorMsg' = Null
  /\ reads' = RemoveAt(reads, i)
  /\ lastOp' = [op |-> "onload", file |-> reads[i].file, stale |-> reads[i].stale,
                index |-> i]
  /\ UNCHANGED <<prompt, status, inflight>>

\* reader.onload without its setResultImage(null).
readerOnload_KeepsResult(i) ==
  /\ i \in DOMAIN reads
  /\ Cardinality(blobUrls) < MaxBlobUrls
  /\ LET file == reads[i].file
         url == createObjectURL(file)
     IN /\ originalImage' = [base64 |-> DataURL(file), mimeType |-> file.type, url |-> url]
        /\ blobUrls' = blobUrls \cup {url.id}
  /\ status' = IDLE
  /\ errorMsg' = Null
  /\ reads' = RemoveAt(reads, i)
  /\ lastOp' = [op |-> "onload", file |-> reads[i].file, stale |-> reads[i].stale,
                index |-> i]
  /\ UNCHANGED <<prompt, resultImage, inflight>>

\* reader.onload of the i-th pending read.
readerOnload(i) ==
  /\ i \in DOMAIN reads
  /\ Cardinality(blobUrls) < MaxBlobUrls
  /\ LET file == reads[i].file
         url == createObjectURL(file)
     IN /\ originalImage' = [base64 |-> DataURL(file), mimeType |-> file.type, url |-> url]
        /\ blobUrls' = blobUrls \cup {url.id}
  /\ resultImage' = Null
  /\ status' = IDLE
  /\ errorMsg' = Null
  /\ reads' = RemoveAt(reads, i)
  /\ lastOp' = [op |-> "onload", file |-> reads[i].file, stale |-> reads[i].stale,
                index |-> i]
  /\ UNCHANGED <<prompt, inflight>>

\* The i-th pending read fails: App sets no onerror.
readerError(i) ==
  /\ i \in DOMAIN reads
  /\ reads' = RemoveAt(reads, i)
  /\ lastOp' = Op("readError")
  /\ UNCHANGED <<session, inflight, blobUrls>>

\* setPrompt(v), from the textarea or a suggestion.
setPrompt(v) ==
  /\ prompt' = v
  /\ lastOp' = Op("setPrompt")
  /\ UNCHANGED <<originalImage, status, resultImage, errorMsg, reads, inflight, blobUrls>>

\* The guard without trim(): a white-space instruction passes.
GenerateRejected_NoTrim == originalImage = NullImage \/ prompt = <<>>

\* The guard of handleGenerate: what makes it return at once.
GenerateRejected == originalImage = NullImage \/ Blank(prompt)

\* handleGenerate up to the await.
handleGenerate ==
  IF GenerateRejected
    THEN /\ lastOp' = [op |-> "generate", accepted |-> FALSE]
         /\ UNCHANGED <<session, reads, inflight, blobUrls>>
    ELSE /\ Len(inflight) < MaxInflight
         /\ status' = LOADING
         /\ errorMsg' = Null
         /\ resultImage' = Null
         /\ inflight' = Append(inflight, [image |-> originalImage, stale |-> FALSE])
         /\ lastOp' = [op |-> "generate", accepted |-> TRUE]
         /\ UNCHANGED <<originalImage, prompt, reads, blobUrls>>

\* The catch block without its setStatus(ERROR).
generateSettled_CatchKeepsStatus(i, r) ==
  /\ i \in DOMAIN inflight
  /\ IF r.kind = "result"
       THEN IF Truthy(r.imageUrl)
              THEN /\ resultImage' = r.imageUrl
                   /\ status' = SUCCESS
                   /\ UNCHANGED errorMsg
              ELSE /\ errorMsg' = OrElse(r.text, NoImageMsg)
                   /\ status' = ERROR
                   /\ UNCHANGED resultImage
       ELSE /\ errorMsg' = OrElse(r.message, UnexpectedMsg)
            /\ UNCHANGED <<status, resultImage>>
  /\ inflight' = RemoveAt(inflight, i)
  /\ lastOp' = [op |-> "response", resp |-> r, stale |-> inflight[i].stale]
  /\ UNCHANGED <<originalImage, prompt, reads, blobUrls>>

\* The no-image branch storing result.text as it is, without the fallback.
generateSettled_NoFallback(i, r) ==
  /\ i \in DOMAIN inflight
  /\ IF r.kind = "result"
       THEN IF Truthy(r.imageUrl)
              THEN /\ resultImage' = r.imageUrl
                   /\ status' = SUCCESS
                   /\ UNCHANGED errorMsg
              ELSE /\ errorMsg' = r.text
                   /\ status' = ERROR
                   /\ UNCHANGED resultImage
       ELSE /\ errorMsg' = OrElse(r.message, UnexpectedMsg)
            /\ status' = ERROR
            /\ UNCHANGED resultImage
  /\ inflight' = RemoveAt(inflight, i)
  /\ lastOp' = [op |-> "response", resp |-> r, stale |-> inflight[i].stale]
  /\ UNCHANGED <<originalImage, prompt, reads, blobUrls>>

\* handleGenerate from the await on: the i-th call in flight settles to r.
generateSettled(i, r) ==
  /\ i \in DOMAIN inflight
  /\ IF r.kind = "result"
       THEN IF Truthy(r.imageUrl)
              THEN /\ resultImage' = r.imageUrl
                   /\ status' = SUCCESS
                   /\ UNCHANGED errorMsg
              ELSE /\ errorMsg' = OrElse(r.text, NoImageMsg)
                   /\ status' = ERROR
                   /\ UNCHANGED resultImage
       ELSE /\ errorMsg' = OrElse(r.message, UnexpectedMsg)
            /\ status' = ERROR
            /\ UNCHANGED resultImage
  /\ inflight' = RemoveAt(inflight, i)
  /\ lastOp' = [op |-> "response", resp |-> r, stale |-> inflight[i].stale]
  /\ UNCHANGED <<originalImage, prompt, reads, blobUrls>>

\* handleReset without its setPrompt("").
handleReset_KeepsPrompt ==
  /\ originalImage' = NullImage
  /\ resultImage' = Null
  /\ status' = IDLE
  /\ errorMsg' = Null
  /\ reads' = [i \in DOMAIN reads |-> [reads[i] EXCEPT !.stale = TRUE]]
  /\ inflight' = [i \in DOMAIN inflight |-> [inflight[i] EXCEPT !.stale = TRUE]]
  /\ lastOp' = [op |-> "reset", again |-> lastOp.op = "reset"]
  /\ UNCHANGED <<prompt, blobUrls>>

\* handleReset reporting, on a session that holds no image, that there is
\* nothing to clear.
handleReset_ReportsNothingToClear ==
  /\ originalImage' = NullImage
  /\ resultImage' = Null
  /\ prompt' = <<>>
  /\ status' = IDLE
  /\ errorMsg' = IF originalImage = NullImage THEN "Nothing to clear." ELSE Null
  /\ reads' = [i \in DOMAIN reads |-> [reads[i] EXCEPT !.stale = TRUE]]
  /\ inflight' = [i \in DOMAIN inflight |-> [inflight[i] EXCEPT !.stale = TRUE]]
  /\ lastOp' = [op |-> "reset", again |-> lastOp.op = "reset"]
  /\ UNCHANGED blobUrls

\* handleReset. The reads and calls that were started before it go on.
handleReset ==
  /\ originalImage' = NullImage
  /\ resultImage' = Null
  /\ prompt' = <<>>
  /\ status' = IDLE
  /\ errorMsg' = Null
  /\ reads' = [i \in DOMAIN reads |-> [reads[i] EXCEPT !.stale = TRUE]]
  /\ inflight' = [i \in DOMAIN inflight |-> [inflight[i] EXCEPT !.stale = TRUE]]
  /\ lastOp' = [op |-> "reset", again |-> lastOp.op = "reset"]
  /\ UNCHANGED blobUrls

----------------------------------------------------------------------------
\* What App renders.

\* The file input mounted whatever the state.
IntroRendered_Always == TRUE

\* {!originalImage && ...}: the intro section, which holds the file input.
IntroRendered == originalImage = NullImage

\* {originalImage && ...}: the workspace, which holds every other control.
WorkspaceRendered == originalImage # NullImage

\* disabled= of the Generate button.
GenerateDisabled == status = LOADING \/ Blank(prompt)

----------------------------------------------------------------------------
\* The component as rendered.

SelectFile == \E files \in FileLists : IntroRendered /\ handleFileSelect(files)

ReaderOnload == \E i \in 1..MaxPendingReads : readerOnload(i)

ReaderError == \E i \in 1..MaxPendingReads : readerError(i)

TypePrompt == \E v \in TypedPrompts : WorkspaceRendered /\ setPrompt(v)

ClickSuggestion == \E v \in PROMPT_CATEGORIES : WorkspaceRendered /\ setPrompt(v)

ClickGenerate == WorkspaceRendered /\ ~GenerateDisabled /\ handleGenerate

GenerateSettled == \E i \in 1..MaxInflight, r \in Responses : generateSettled(i, r)

ClickReset == WorkspaceRendered /\ handleReset

Next ==
  \/ SelectFile
  \/ ReaderOnload
  \/ ReaderError
  \/ TypePrompt
  \/ ClickSuggestion
  \/ ClickGenerate
  \/ GenerateSettled
  \/ ClickReset

Spec == Init /\ [][Next]_vars

\* Every call to the remote model settles: it resolves or it rejects.
FairSpec == Spec /\ WF_vars(GenerateSettled)

----------------------------------------------------------------------------
\* generate() as an operation of the session: handleGenerate run in any state,
\* whether or not the Generate button is rendered or enabled. Its own guard
\* is then all that stands between a call and the remote model.

CallGenerate == handleGenerate

\* reset() as an operation of the session: handleReset run in any state,
\* whether or not the Clear All button is rendered.
CallReset == handleReset

CallNext ==
  \/ SelectFile
  \/ ReaderOnload
  \/ ReaderError
  \/ TypePrompt
  \/ ClickSuggestion
  \/ CallGenerate
  \/ GenerateSettled
  \/ ClickReset

CallSpec == Init /\ [][CallNext]_vars

ResetNext ==
  \/ SelectFile
  \/ ReaderOnload
  \/ ReaderError
  \/ TypePrompt
  \/ ClickSuggestion
  \/ ClickGenerate
  \/ GenerateSettled
  \/ CallReset

ResetSpec == Init /\ [][ResetNext]_vars

----------------------------------------------------------------------------
\* Properties.

\* The step is the settling of a call that was issued before a reset.
StaleResponseStep == lastOp'.op = "response" /\ lastOp'.stale

\* C1: a response to a request that was issued before a reset is discarded:
\* it changes neither the status, nor the stored result, nor the stored error.
C1_StaleResponseDiscarded ==
  [][StaleResponseStep => UNCHANGED <<status, resultImage, errorMsg>>]_vars

\* C2: at most one call to the remote model is outstanding at any time.
C2_SingleInFlight == Len(inflight) <= 1

\* The step is a generate() that holds an image and a non-blank instruction.
AcceptedGenerateStep ==
  lastOp'.op = "generate" /\ originalImage # NullImage /\ ~Blank(prompt)

\* The step takes the session out of Loading.
LeavesLoadingStep == status = LOADING /\ status' # LOADING

RejectedGenerateStep ==
  lastOp'.op = "generate" /\ (originalImage = NullImage \/ Trim(prompt) = <<>>)

\* C4: generate() with no image held, or with an empty or white-space
\* instruction, changes nothing of the session and issues no remote call.
C4_RejectedGenerateNoOp == [][RejectedGenerateStep => UNCHANGED <<session, inflight>>]_vars

\* C4 witness: generate() was run on an image with a white-space instruction.
C4_Witness ==
  /\ lastOp.op = "generate"
  /\ originalImage # NullImage
  /\ prompt # <<>>
  /\ \A k \in DOMAIN prompt : IsWhiteSpace(prompt[k])

\* C5: after reset() the status is Idle, no image, result or error is held and
\* the instruction is empty.
C5_ResetClearsAll ==
  lastOp.op = "reset" =>
    /\ status = IDLE
    /\ originalImage = NullImage
    /\ resultImage = Null
    /\ errorMsg = Null
    /\ prompt = <<>>

\* C5 witness: a reset while a call is outstanding.
C5_Witness == lastOp.op = "reset" /\ inflight # <<>>

\* The step is the selection of a file whose type does not start with image/.
InvalidFileStep ==
  /\ lastOp'.op = "fileSelect"
  /\ lastOp'.files # <<>>
  /\ ~StartsWith(lastOp'.files[1].type, ImagePrefix)

\* C6: selecting a file that is not an image leaves status, original image,
\* stored result and stored error as they were.
C6_InvalidFileNoChange ==
  [][InvalidFileStep => UNCHANGED <<status, originalImage, resultImage, errorMsg>>]_vars

\* The last event is a call that resolved to a result with, or without, an image.
ImageResponse ==
  lastOp.op = "response" /\ lastOp.resp.kind = "result" /\ Truthy(lastOp.resp.imageUrl)
NoImageResponse ==
  lastOp.op = "response" /\ lastOp.resp.kind = "result" /\ ~Truthy(lastOp.resp.imageUrl)
FaultResponse == lastOp.op = "response" /\ lastOp.resp.kind = "throw"

\* C7: after a response that carries an image the session is in Success, the
\* stored result is that image and no error is stored.
C7_ImageResponseSuccess ==
  ImageResponse =>
    status = SUCCESS /\ resultImage = lastOp.resp.imageUrl /\ errorMsg = Null

\* C8: after a response that carries no image the session is in Error, the
\* stored reason is the response's text, or the fixed message when it has
\* none, and no result image is stored.
C8_NoImageResponseError ==
  NoImageResponse =>
    /\ status = ERROR
    /\ errorMsg = IF lastOp.resp.text \in {Undefined, ""}
                    THEN "The model responded, but did not generate an image."
                    ELSE lastOp.resp.text
    /\ resultImage = Null

\* C9: after a call that raised a fault the session is in Error and the stored
\* reason is the fault's message, or the generic message when it has none.
C9_FaultError ==
  FaultResponse =>
    /\ status = ERROR
    /\ errorMsg = IF lastOp.resp.message \in {Undefined, ""}
                    THEN "An unexpected error occurred."
                    ELSE lastOp.resp.message

\* C9 witness: a call of a session in Loading rejected with "timeout".
C9_Witness ==
  FaultResponse /\ ~lastOp.stale /\ lastOp.resp.message = "timeout" /\ errorMsg = "timeout"

\* C10: in Loading no result image and no error message is stored.
C10_LoadingShowsNothingStale == status = LOADING => resultImage = Null /\ errorMsg = Null

\* C10 witness: Loading while an earlier call, cut off by a reset, is outstanding.
C10_Witness == status = LOADING /\ Len(inflight) = 2 /\ inflight[1].stale

\* C11: in Success a result image is stored.
C11_SuccessHasResult == status = SUCCESS => resultImage \notin {Null, Undefined, ""}

\* C11 witness: Success while a file read is still pending.
C11_Witness == status = SUCCESS /\ reads # <<>>

\* C12: in Error a non-empty error message is stored.
C12_ErrorHasMessage == status = ERROR => errorMsg \notin {Null, Undefined, ""}

\* C12 witness: Error after a response that carried neither image nor text.
C12_Witness ==
  /\ status = ERROR
  /\ lastOp.op = "response"
  /\ lastOp.resp.kind = "result"
  /\ lastOp.resp.text \in {Undefined, ""}

\* C13: while no original image is held no result image is stored and the
\* status is neither Success nor Error.
C13_NothingWithoutOriginal ==
  originalImage = NullImage => resultImage = Null /\ status \notin {SUCCESS, ERROR}

\* C14: a completed read of an image file leaves the session Idle, holding
\* that file's payload, media type and a fresh display handle on its bytes,
\* with no stored result or error and the instruction as it was.
C14_AcquireInstallsImage ==
  [][lastOp'.op = "onload" =>
       LET f == lastOp'.file
       IN /\ SubSeq(f.type, 1, 6) = <<"i", "m", "a", "g", "e", "/">>
          /\ status' = IDLE
          /\ originalImage' # NullImage
          /\ originalImage'.base64 = <<"data:", f.type, ";base64,", f.bytes>>
          /\ originalImage'.mimeType = f.type
          /\ originalImage'.url.bytes = f.bytes
          /\ originalImage'.url.id \notin blobUrls
          /\ originalImage'.url.id \in blobUrls'
          /\ resultImage' = Null
          /\ errorMsg' = Null
          /\ prompt' = prompt]_vars

\* C14 witness: a read completed while a call was outstanding and an
\* instruction was typed.
C14_Witness == lastOp.op = "onload" /\ inflight # <<>> /\ prompt # <<>>

\* A call issued since the last reset is outstanding.
CallInFlight == \E k \in DOMAIN inflight : ~inflight[k].stale

\* C15: while a call is in flight no acquisition takes effect: a completed
\* file read replaces neither the held original image nor the status.
C15_NoAcquireWhileInFlight ==
  [][(CallInFlight /\ lastOp'.op = "onload") =>
       originalImage' = originalImage /\ status' = status]_vars

\* C16: the only display handle not released is that of the held image, and
\* none is when no image is held.
C16_OnlyCurrentHandleLive ==
  blobUrls = IF originalImage = NullImage THEN {} ELSE {originalImage.url.id}

\* C17: a reset() that follows a reset() at once changes nothing: two resets
\* in a row leave the state one reset leaves.
C17_ResetIdempotent ==
  [][(lastOp.op = "reset" /\ lastOp'.op = "reset") =>
       UNCHANGED <<session, reads, inflight, blobUrls>>]_vars

\* C17 witness: a second reset in a row, with a read and a call outstanding.
C17_Witness == lastOp.op = "reset" /\ lastOp.again /\ reads # <<>> /\ inflight # <<>>

\* C18: a result image and an error message are never shown together: while
\* the workspace, which renders both, is mounted, at most one of them is stored.
C18_ResultXorError == WorkspaceRendered => resultImage = Null \/ errorMsg = Null

\* The two images hold the same encoded payload.
SamePayload(a, b) == a # NullImage /\ b # NullImage /\ a.base64 = b.base64

\* C19: a result is never shown next to an original image other than the one
\* its request was built from: when a call settles with an image while the
\* workspace is rendered, it was issued with the payload that is held.
C19_ResultOfHeldImage ==
  [][\A i \in DOMAIN inflight, r \in Results :
       (Truthy(r.imageUrl) /\ generateSettled(i, r) /\ WorkspaceRendered) =>
         SamePayload(inflight[i].image, originalImage)]_vars

\* The step completes a read right after the completion of a read that was
\* selected after it: the pending reads are in the order of their selection,
\* and the read that completes stood before the one that completed last.
OvertakenReadStep ==
  lastOp.op = "onload" /\ lastOp'.op = "onload" /\ lastOp'.index < lastOp.index

\* The step completes a read that was started before a reset.
StaleReadStep == lastOp'.op = "onload" /\ lastOp'.stale

\* C20: the last acquisition wins: a read that completes after a read selected
\* later has completed does not replace the held image, and neither does a
\* read that was started before a reset.
C20_LastAcquisitionWins ==
  [][(OvertakenReadStep \/ StaleReadStep) => originalImage' = originalImage]_vars

====
